---- MODULE Spec2Model ----
(***************************************************************************)
(* Model of librender::SliceArray<T, BUCKET_SIZE>                          *)
(* (software/librender/SliceArray.h): a chain of fixed-size buckets with   *)
(* a lock-free append, a spin-lock guarded allocateBucket, a bidirectional *)
(* iterator, an insertion sort and reset.                                  *)
(*                                                                         *)
(* Every read or write of a volatile member (fLastBucket,                  *)
(* fNextBucketIndex, fLock) is one step of the thread that performs it;    *)
(* memory is sequentially consistent in Spec, FairSpec and SeqSpec, and    *)
(* the stores of allocateBucket are buffered in WeakSpec.  sort(), reset() *)
(* and the iterator are single-threaded operations and are taken in        *)
(* quiescent states only.                                                  *)
(***************************************************************************)
EXTENDS Integers, Sequences, FiniteSets, TLC

\* ------------------------------------------------------------------ bounds
NumThreads == 2        \* threads that may call append concurrently
MaxAppends == 2        \* append calls per thread (concurrent specification)
MaxBucketSize == 2     \* BUCKET_SIZE ranges over 1..MaxBucketSize
MaxKey == 2            \* element keys of the sequential specification
MaxResets == 1         \* calls of reset()
MaxSeqAppends == 5     \* append calls of the single-threaded specification

Threads == 1..NumThreads
\* with stores visible in program order every allocation is followed by a
\* successful reservation of its allocating call, so the allocator hands out
\* no more buckets than there are append calls; the guards of NewBucket and
\* NewFirst cap the allocations of the weakly ordered specification
MaxBuckets == IF NumThreads * MaxAppends > MaxSeqAppends
              THEN NumThreads * MaxAppends ELSE MaxSeqAppends

NullBucket == 0        \* nullptr
\* a cell of T items[BUCKET_SIZE] that no append has written
Unwritten == [key |-> 0, tag |-> 0]

VARIABLES
  BUCKET_SIZE,       \* template parameter, fixed by Init
  fFirstBucket,      \* Bucket *fFirstBucket
  fLastBucket,       \* Bucket * volatile fLastBucket
  fNextBucketIndex,  \* volatile int fNextBucketIndex
  fLock,             \* volatile int fLock
  heap,              \* the Bucket objects: next, prev, items
  allocated,         \* number of buckets the allocator has handed out
  storeBuf,          \* stores of each thread not yet visible to the others
  pc,                \* position of each thread inside append/allocateBucket
  index,             \* append's local: int index
  bucket,            \* append's local: Bucket *bucket
  newBucket,         \* allocateBucket's local: Bucket *newBucket
  copyFrom,          \* append's argument
  calls,             \* append calls each thread has made
  resets,            \* reset() calls made
  \* history variables (not program state)
  reserved,          \* <<call, bucket, index>> per successful CAS of the epoch
  lastAtIndexRead,   \* fLastBucket at the time a thread read fNextBucketIndex
  appended,          \* values of the epoch's returned append calls, in order
  started,           \* append calls started in the epoch
  lastOp,            \* last container operation completed
  sorted,            \* sort() has run in the epoch
  epochBase,         \* buckets allocated before the epoch began
  preSort,           \* traversal just before the last sort()
  sortAssigns        \* element assignments made by the last sort()

progVars == <<BUCKET_SIZE, storeBuf, fFirstBucket, fLastBucket,
              fNextBucketIndex, fLock,
              heap, allocated>>
threadVars == <<pc, index, bucket, newBucket, copyFrom, calls>>
histVars == <<reserved, lastAtIndexRead, appended, started, lastOp, sorted,
              epochBase, preSort, sortAssigns>>
vars == <<progVars, threadVars, resets, histVars>>

\* ------------------------------------------------------------------ Bucket
\* struct Bucket { next = nullptr; prev = nullptr; T items[BUCKET_SIZE]; }
Bucket(size) ==
  [next |-> NullBucket, prev |-> NullBucket,
   items |-> [i \in 0..(size - 1) |-> Unwritten]]

\* T's operator> : elements are ordered by key alone
Greater(a, b) == a.key > b.key

\* ---------------------------------------------------------------- iterator
iterator(b, i) == [fBucket |-> b, fIndex |-> i]

begin == iterator(fFirstBucket, 0)

end == iterator(fLastBucket, fNextBucketIndex)

\* operator++ that leaves a bucket one cell early
IncrementEarly(h, it) ==
  IF it.fIndex + 1 >= BUCKET_SIZE - 1 /\ h[it.fBucket].next # NullBucket
  THEN iterator(h[it.fBucket].next, 0)
  ELSE iterator(it.fBucket, it.fIndex + 1)

\* iterator::operator++ on the buckets h
Increment(h, it) ==
  IF it.fIndex + 1 = BUCKET_SIZE /\ h[it.fBucket].next # NullBucket
  THEN iterator(h[it.fBucket].next, 0)
  ELSE iterator(it.fBucket, it.fIndex + 1)

\* operator-- that enters the previous bucket at its first cell
DecrementToBucketStart(h, it) ==
  IF it.fIndex - 1 < 0
  THEN iterator(h[it.fBucket].prev, 0)
  ELSE iterator(it.fBucket, it.fIndex - 1)

\* iterator::operator-- on the buckets h
Decrement(h, it) ==
  IF it.fIndex - 1 < 0
  THEN iterator(h[it.fBucket].prev, BUCKET_SIZE - 1)
  ELSE iterator(it.fBucket, it.fIndex - 1)

\* iterator::operator*
Deref(h, it) == h[it.fBucket].items[it.fIndex]

\* *it = v
Assign(h, it, v) ==
  [h EXCEPT ![it.fBucket].items[it.fIndex] = v]

\* for (i = from; i != to; ++i) collect *i ; fuel bounds a walk that misses to
RECURSIVE Walk(_, _, _, _, _)
Walk(h, from, to, acc, fuel) ==
  IF from = to \/ fuel = 0 THEN acc
  ELSE Walk(h, Increment(h, from), to, Append(acc, Deref(h, from)), fuel - 1)

WalkFuel == MaxBuckets * MaxBucketSize + 1

\* the sequence read from begin() to end()
Traverse == Walk(heap, begin, end, <<>>, WalkFuel)

\* for (i = from; i != to; --i) collect *i.prev() : the elements passed
\* while stepping back from from to to
RECURSIVE WalkBack(_, _, _, _, _)
WalkBack(h, from, to, acc, fuel) ==
  IF from = to \/ fuel = 0 THEN acc
  ELSE LET p == Decrement(h, from)
       IN WalkBack(h, p, to, Append(acc, Deref(h, p)), fuel - 1)

\* the sequence read stepping back from end() to begin()
TraverseBack == WalkBack(heap, end, begin, <<>>, WalkFuel)

\* the positions passed from from to to, in order
RECURSIVE Positions(_, _, _, _, _)
Positions(h, from, to, acc, fuel) ==
  IF from = to \/ fuel = 0 THEN acc
  ELSE Positions(h, Increment(h, from), to, Append(acc, from), fuel - 1)

\* -------------------------------------------------------------------- Init
InitCommon ==
  /\ BUCKET_SIZE \in 1..MaxBucketSize
  /\ fFirstBucket = NullBucket
  /\ fLastBucket = NullBucket
  /\ fNextBucketIndex = 0
  /\ fLock = 0
  /\ heap = [b \in 1..MaxBuckets |-> Bucket(BUCKET_SIZE)]
  /\ allocated = 0
  /\ storeBuf = [t \in Threads |-> {}]
  /\ pc = [t \in Threads |-> "idle"]
  /\ index = [t \in Threads |-> 0]
  /\ bucket = [t \in Threads |-> NullBucket]
  /\ newBucket = [t \in Threads |-> NullBucket]
  /\ copyFrom = [t \in Threads |-> Unwritten]
  /\ calls = [t \in Threads |-> 0]
  /\ resets = 0
  /\ reserved = {}
  /\ lastAtIndexRead = [t \in Threads |-> NullBucket]
  /\ appended = <<>>
  /\ started = 0
  /\ lastOp = "construct"
  /\ sorted = FALSE
  /\ epochBase = 0
  /\ preSort = <<>>
  /\ sortAssigns = 0

Init == InitCommon

Quiescent == \A t \in Threads : pc[t] = "idle"

\* ------------------------------------------------------------------ append
\* a thread enters append(copyFrom)
AppendCall(t, v) ==
  /\ pc[t] = "idle"
  /\ pc' = [pc EXCEPT ![t] = "readIndex"]
  /\ copyFrom' = [copyFrom EXCEPT ![t] = v]
  /\ calls' = [calls EXCEPT ![t] = @ + 1]
  /\ started' = started + 1
  /\ UNCHANGED <<progVars, index, bucket, newBucket, resets, reserved,
                 lastAtIndexRead, appended, lastOp, sorted, preSort,
                 sortAssigns, epochBase>>

\* index = fNextBucketIndex;
ReadIndex(t) ==
  /\ pc[t] = "readIndex"
  /\ index' = [index EXCEPT ![t] = fNextBucketIndex]
  /\ lastAtIndexRead' = [lastAtIndexRead EXCEPT ![t] = fLastBucket]
  /\ pc' = [pc EXCEPT ![t] = "readBucket"]
  /\ UNCHANGED <<progVars, bucket, newBucket, copyFrom, calls, resets,
                 reserved, appended, started, lastOp, sorted, preSort,
                 sortAssigns, epochBase>>

\* a read of fLastBucket that is not volatile: the value of an earlier
\* iteration is kept in a register
ReadBucketCached(t) ==
  /\ pc[t] = "readBucket"
  /\ bucket' = [bucket EXCEPT ![t] =
       IF bucket[t] # NullBucket THEN bucket[t] ELSE fLastBucket]
  /\ pc' = [pc EXCEPT ![t] =
       IF index[t] = BUCKET_SIZE \/ bucket'[t] = NullBucket
       THEN "lockSpin" ELSE "cas"]
  /\ UNCHANGED <<progVars, index, newBucket, copyFrom, calls, resets,
                 histVars>>

\* a test that looks at the bucket only: if (bucket == nullptr)
ReadBucketNoFullTest(t) ==
  /\ pc[t] = "readBucket"
  /\ bucket' = [bucket EXCEPT ![t] = fLastBucket]
  /\ pc' = [pc EXCEPT ![t] =
       IF bucket'[t] = NullBucket THEN "lockSpin" ELSE "cas"]
  /\ UNCHANGED <<progVars, index, newBucket, copyFrom, calls, resets,
                 histVars>>

\* bucket = fLastBucket; if (index == BUCKET_SIZE || bucket == nullptr)
\*   { allocateBucket(); continue; }
ReadBucket(t) ==
  /\ pc[t] = "readBucket"
  /\ bucket' = [bucket EXCEPT ![t] = fLastBucket]
  /\ pc' = [pc EXCEPT ![t] =
       IF index[t] = BUCKET_SIZE \/ bucket'[t] = NullBucket
       THEN "lockSpin" ELSE "cas"]
  /\ UNCHANGED <<progVars, index, newBucket, copyFrom, calls, resets,
                 histVars>>

\* a compare-and-swap that stores index, not index + 1
CompareAndSwapNoIncrement(t) ==
  /\ pc[t] = "cas"
  /\ IF fNextBucketIndex = index[t]
     THEN /\ fNextBucketIndex' = index[t]
          /\ reserved' = reserved \cup {<<copyFrom[t].tag, bucket[t], index[t]>>}
          /\ pc' = [pc EXCEPT ![t] = "write"]
     ELSE /\ pc' = [pc EXCEPT ![t] = "readIndex"]
          /\ UNCHANGED <<fNextBucketIndex, reserved>>
  /\ UNCHANGED <<BUCKET_SIZE, storeBuf,
                 fFirstBucket, fLastBucket, fLock, heap,
                 allocated, index, bucket, newBucket, copyFrom, calls, resets,
                 lastAtIndexRead, appended, started, lastOp, sorted, preSort,
                 sortAssigns, epochBase>>

\* if (__sync_bool_compare_and_swap(&fNextBucketIndex, index, index + 1)) break;
CompareAndSwap(t) ==
  /\ pc[t] = "cas"
  /\ IF fNextBucketIndex = index[t]
     THEN /\ fNextBucketIndex' = index[t] + 1
          /\ reserved' = reserved \cup {<<copyFrom[t].tag, bucket[t], index[t]>>}
          /\ pc' = [pc EXCEPT ![t] = "write"]
     ELSE /\ pc' = [pc EXCEPT ![t] = "readIndex"]
          /\ UNCHANGED <<fNextBucketIndex, reserved>>
  /\ UNCHANGED <<BUCKET_SIZE, storeBuf,
                 fFirstBucket, fLastBucket, fLock, heap,
                 allocated, index, bucket, newBucket, copyFrom, calls, resets,
                 lastAtIndexRead, appended, started, lastOp, sorted, preSort,
                 sortAssigns, epochBase>>

\* bucket->items[index] = copyFrom;  and append returns
WriteItem(t) ==
  /\ pc[t] = "write"
  /\ heap' = [heap EXCEPT ![bucket[t]].items[index[t]] = copyFrom[t]]
  /\ appended' = Append(appended, copyFrom[t])
  /\ lastOp' = "append"
  /\ pc' = [pc EXCEPT ![t] = "idle"]
  /\ UNCHANGED <<BUCKET_SIZE, storeBuf,
                 fFirstBucket, fLastBucket, fNextBucketIndex,
                 fLock, allocated, index, bucket, newBucket, copyFrom, calls,
                 resets, reserved, lastAtIndexRead, started, sorted, preSort,
                 sortAssigns, epochBase>>

\* ---------------------------------------------------------- allocateBucket
\* while (fLock) ;
LockSpin(t) ==
  /\ pc[t] = "lockSpin"
  /\ fLock = 0
  /\ pc' = [pc EXCEPT ![t] = "lockCas"]
  /\ UNCHANGED <<progVars, index, bucket, newBucket, copyFrom, calls, resets,
                 histVars>>

\* an acquisition by a plain store: fLock = 1 without the comparison
LockAcquireBlind(t) ==
  /\ pc[t] = "lockCas"
  /\ fLock' = 1
  /\ pc' = [pc EXCEPT ![t] = "check"]
  /\ UNCHANGED <<BUCKET_SIZE, storeBuf,
                 fFirstBucket, fLastBucket, fNextBucketIndex,
                 heap, allocated, index, bucket, newBucket, copyFrom, calls,
                 resets, histVars>>

\* do ... while (!__sync_bool_compare_and_swap(&fLock, 0, 1));
LockAcquire(t) ==
  /\ pc[t] = "lockCas"
  /\ IF fLock = 0
     THEN /\ fLock' = 1
          /\ pc' = [pc EXCEPT ![t] = "check"]
     ELSE /\ pc' = [pc EXCEPT ![t] = "lockSpin"]
          /\ UNCHANGED fLock
  /\ UNCHANGED <<BUCKET_SIZE, storeBuf,
                 fFirstBucket, fLastBucket, fNextBucketIndex,
                 heap, allocated, index, bucket, newBucket, copyFrom, calls,
                 resets, histVars>>

\* an allocateBucket without the second look: it grows on what append saw
\* before the lock was taken
CheckFullStale(t) ==
  /\ pc[t] = "check"
  /\ pc' = [pc EXCEPT ![t] =
       IF bucket[t] # NullBucket /\ fLastBucket # NullBucket
       THEN "newBucket" ELSE "newFirst"]
  /\ UNCHANGED <<progVars, index, bucket, newBucket, copyFrom, calls, resets,
                 histVars>>

\* if (fNextBucketIndex == BUCKET_SIZE || fLastBucket == nullptr)
\*   { if (fLastBucket) ... else ... }
CheckFull(t) ==
  /\ pc[t] = "check"
  /\ pc' = [pc EXCEPT ![t] =
       IF fNextBucketIndex = BUCKET_SIZE \/ fLastBucket = NullBucket
       THEN (IF fLastBucket # NullBucket THEN "newBucket" ELSE "newFirst")
       ELSE "unlock"]
  /\ UNCHANGED <<progVars, index, bucket, newBucket, copyFrom, calls, resets,
                 histVars>>

\* a growth that leaves newBucket->prev at nullptr
NewBucketNoPrev(t) ==
  /\ pc[t] = "newBucket"
  /\ allocated < MaxBuckets
  /\ allocated' = allocated + 1
  /\ newBucket' = [newBucket EXCEPT ![t] = allocated + 1]
  /\ heap' = [heap EXCEPT ![allocated + 1] = Bucket(BUCKET_SIZE)]
  /\ pc' = [pc EXCEPT ![t] = "linkNext"]
  /\ UNCHANGED <<BUCKET_SIZE, storeBuf,
                 fFirstBucket, fLastBucket, fNextBucketIndex,
                 fLock, index, bucket, copyFrom, calls, resets, histVars>>

\* Bucket *newBucket = new (*fAllocator) Bucket; newBucket->prev = fLastBucket;
NewBucket(t) ==
  /\ pc[t] = "newBucket"
  /\ allocated < MaxBuckets
  /\ allocated' = allocated + 1
  /\ newBucket' = [newBucket EXCEPT ![t] = allocated + 1]
  /\ heap' = [heap EXCEPT ![allocated + 1] =
                [Bucket(BUCKET_SIZE) EXCEPT !.prev = fLastBucket]]
  /\ pc' = [pc EXCEPT ![t] = "linkNext"]
  /\ UNCHANGED <<BUCKET_SIZE, storeBuf,
                 fFirstBucket, fLastBucket, fNextBucketIndex,
                 fLock, index, bucket, copyFrom, calls, resets, histVars>>

\* a growth that leaves fLastBucket->next as it was
LinkNextForgotten(t) ==
  /\ pc[t] = "linkNext"
  /\ pc' = [pc EXCEPT ![t] = "publish"]
  /\ UNCHANGED <<progVars, index, bucket, newBucket, copyFrom, calls, resets,
                 histVars>>

\* fLastBucket->next = newBucket;
LinkNext(t) ==
  /\ pc[t] = "linkNext"
  /\ heap' = [heap EXCEPT ![fLastBucket].next = newBucket[t]]
  /\ pc' = [pc EXCEPT ![t] = "publish"]
  /\ UNCHANGED <<BUCKET_SIZE, storeBuf,
                 fFirstBucket, fLastBucket, fNextBucketIndex,
                 fLock, allocated, index, bucket, newBucket, copyFrom, calls,
                 resets, histVars>>

\* fLastBucket = newBucket;
PublishLast(t) ==
  /\ pc[t] = "publish"
  /\ fLastBucket' = newBucket[t]
  /\ pc' = [pc EXCEPT ![t] = "resetIndex"]
  /\ UNCHANGED <<BUCKET_SIZE, storeBuf,
                 fFirstBucket, fNextBucketIndex, fLock, heap,
                 allocated, index, bucket, newBucket, copyFrom, calls, resets,
                 histVars>>

\* fFirstBucket = new (*fAllocator) Bucket;
NewFirst(t) ==
  /\ pc[t] = "newFirst"
  /\ allocated < MaxBuckets
  /\ allocated' = allocated + 1
  /\ heap' = [heap EXCEPT ![allocated + 1] = Bucket(BUCKET_SIZE)]
  /\ fFirstBucket' = allocated + 1
  /\ pc' = [pc EXCEPT ![t] = "publishFirst"]
  /\ UNCHANGED <<BUCKET_SIZE, storeBuf,
                 fLastBucket, fNextBucketIndex, fLock, index,
                 bucket, newBucket, copyFrom, calls, resets, histVars>>

\* fLastBucket = fFirstBucket;
PublishFirst(t) ==
  /\ pc[t] = "publishFirst"
  /\ fLastBucket' = fFirstBucket
  /\ pc' = [pc EXCEPT ![t] = "resetIndex"]
  /\ UNCHANGED <<BUCKET_SIZE, storeBuf,
                 fFirstBucket, fNextBucketIndex, fLock, heap,
                 allocated, index, bucket, newBucket, copyFrom, calls, resets,
                 histVars>>

\* fNextBucketIndex = 0;
ResetIndex(t) ==
  /\ pc[t] = "resetIndex"
  /\ fNextBucketIndex' = 0
  /\ pc' = [pc EXCEPT ![t] = "unlock"]
  /\ UNCHANGED <<BUCKET_SIZE, storeBuf,
                 fFirstBucket, fLastBucket, fLock, heap,
                 allocated, index, bucket, newBucket, copyFrom, calls, resets,
                 histVars>>

\* an allocateBucket that returns without releasing fLock
UnlockForgotten(t) ==
  /\ pc[t] = "unlock"
  /\ pc' = [pc EXCEPT ![t] = "readIndex"]
  /\ UNCHANGED <<progVars, index, bucket, newBucket, copyFrom, calls, resets,
                 histVars>>

\* fLock = 0; __sync_synchronize();  and allocateBucket returns to the loop
Unlock(t) ==
  /\ pc[t] = "unlock"
  /\ fLock' = 0
  /\ pc' = [pc EXCEPT ![t] = "readIndex"]
  /\ UNCHANGED <<BUCKET_SIZE, storeBuf,
                 fFirstBucket, fLastBucket, fNextBucketIndex,
                 heap, allocated, index, bucket, newBucket, copyFrom, calls,
                 resets, histVars>>

\* one step of thread t inside append
Step(t) ==
  \/ ReadIndex(t) \/ ReadBucket(t) \/ CompareAndSwap(t) \/ WriteItem(t)
  \/ LockSpin(t) \/ LockAcquire(t) \/ CheckFull(t)
  \/ NewBucket(t) \/ LinkNext(t) \/ PublishLast(t)
  \/ NewFirst(t) \/ PublishFirst(t) \/ ResetIndex(t) \/ Unlock(t)

\* -------------------------------------------------------------------- sort
\* an inner loop written as an if: one swap at most
SortInnerOnce(h, j, n) ==
  IF j # begin /\ Greater(Deref(h, Decrement(h, j)), Deref(h, j))
  THEN LET temp == Deref(h, j)
           h1 == Assign(h, j, Deref(h, Decrement(h, j)))
           h2 == Assign(h1, Decrement(h1, j), temp)
       IN [h |-> h2, n |-> n + 2]
  ELSE [h |-> h, n |-> n]

\* an inner loop that compares with >= : equal elements are swapped too
RECURSIVE SortInnerNotStrict(_, _, _)
SortInnerNotStrict(h, j, n) ==
  IF j # begin /\ ~Greater(Deref(h, j), Deref(h, Decrement(h, j)))
  THEN LET temp == Deref(h, j)
           h1 == Assign(h, j, Deref(h, Decrement(h, j)))
           h2 == Assign(h1, Decrement(h1, j), temp)
       IN SortInnerNotStrict(h2, Decrement(h2, j), n + 2)
  ELSE [h |-> h, n |-> n]

\* while (j != begin() && *j.prev() > *j) { swap; --j; }
\* r.h: the buckets, r.n: element assignments made so far
RECURSIVE SortInner(_, _, _)
SortInner(h, j, n) ==
  IF j # begin /\ Greater(Deref(h, Decrement(h, j)), Deref(h, j))
  THEN LET temp == Deref(h, j)
           h1 == Assign(h, j, Deref(h, Decrement(h, j)))
           h2 == Assign(h1, Decrement(h1, j), temp)
       IN SortInner(h2, Decrement(h2, j), n + 2)
  ELSE [h |-> h, n |-> n]

\* for (iterator i = begin().next(), e = end(); i != e; ++i) { j = i; ... }
RECURSIVE SortOuter(_, _, _, _)
SortOuter(h, i, e, n) ==
  IF i = e THEN [h |-> h, n |-> n]
  ELSE LET r == SortInner(h, i, n)
       IN SortOuter(r.h, Increment(r.h, i), e, r.n)

\* sort()
Sort ==
  /\ Quiescent
  /\ LET r == IF fFirstBucket = NullBucket
              THEN [h |-> heap, n |-> 0]
              ELSE SortOuter(heap, Increment(heap, begin), end, 0)
     IN /\ heap' = r.h
        /\ sortAssigns' = r.n
  /\ preSort' = Traverse
  /\ lastOp' = "sort"
  /\ sorted' = TRUE
  /\ UNCHANGED <<BUCKET_SIZE, storeBuf,
                 fFirstBucket, fLastBucket, fNextBucketIndex,
                 fLock, allocated, threadVars, resets, reserved,
                 lastAtIndexRead, appended, started, epochBase>>

\* ------------------------------------------------------------------- reset
\* a reset() that leaves fNextBucketIndex as it was
ResetKeepIndex ==
  /\ Quiescent
  /\ resets < MaxResets
  /\ resets' = resets + 1
  /\ fFirstBucket' = NullBucket
  /\ fLastBucket' = NullBucket
  /\ reserved' = {}
  /\ appended' = <<>>
  /\ started' = 0
  /\ lastOp' = "reset"
  /\ sorted' = FALSE
  /\ epochBase' = allocated
  /\ UNCHANGED <<BUCKET_SIZE, storeBuf,
                 fNextBucketIndex, fLock, heap,
                 allocated, threadVars, lastAtIndexRead, preSort,
                 sortAssigns>>

\* reset(): the destructors run on buckets that nothing refers to afterwards
\* (their storage stays with the allocator); the three members are cleared
Reset ==
  /\ Quiescent
  /\ resets < MaxResets
  /\ resets' = resets + 1
  /\ fFirstBucket' = NullBucket
  /\ fLastBucket' = NullBucket
  /\ fNextBucketIndex' = 0
  /\ reserved' = {}
  /\ appended' = <<>>
  /\ started' = 0
  /\ lastOp' = "reset"
  /\ sorted' = FALSE
  /\ epochBase' = allocated
  /\ UNCHANGED <<BUCKET_SIZE, storeBuf,
                 fLock, heap, allocated, threadVars,
                 lastAtIndexRead, preSort, sortAssigns>>

\* -------------------------------------------------- concurrent specification
\* the value of thread t's n-th call: unique among all calls
UniqueValue(t, n) ==
  [key |-> (t - 1) * MaxAppends + n, tag |-> (t - 1) * MaxAppends + n]

Produce(t) ==
  /\ calls[t] < MaxAppends
  /\ AppendCall(t, UniqueValue(t, calls[t] + 1))

Next ==
  \/ \E t \in Threads : Produce(t)
  \/ \E t \in Threads : Step(t)
  \/ Reset

Spec == Init /\ [][Next]_vars

\* ------------------------------------------------ progress specification
\* every thread inside append keeps being scheduled
FairSpec == Spec /\ \A t \in Threads : WF_vars(Step(t))

\* ---------------------------------------------- single-threaded specification
\* thread 1 alone appends values with arbitrary keys; the tag numbers the call
SeqProduce ==
  /\ calls[1] < MaxSeqAppends
  /\ \E k \in 1..MaxKey : AppendCall(1, [key |-> k, tag |-> calls[1] + 1])

SeqNext ==
  \/ SeqProduce
  \/ Step(1)
  \/ Sort
  \/ Reset

SeqSpec == Init /\ [][SeqNext]_vars

\* --------------------------------------------- weakly ordered specification
\* append and allocateBucket synchronise through plain volatile members, not
\* atomics: the stores of a growth are ordered for the compiler only.  Here
\* each store of allocateBucket to a shared location waits in the storing
\* thread's buffer and reaches memory at a later step, in any order;
\* __sync_synchronize() returns once the buffer is empty, and the
\* compare-and-swaps act on memory.  A thread reads its own buffered store.
Store(var, obj, val) == [var |-> var, obj |-> obj, val |-> val]

\* the value thread t reads from the member var whose value in memory is mem
Loaded(t, var, mem) ==
  IF \E s \in storeBuf[t] : s.var = var
  THEN (CHOOSE s \in storeBuf[t] : s.var = var).val
  ELSE mem

\* one buffered store of thread t becomes visible to the other threads
Drain(t) ==
  \E s \in storeBuf[t] :
    /\ storeBuf' = [storeBuf EXCEPT ![t] = @ \ {s}]
    /\ fFirstBucket' = IF s.var = "fFirstBucket" THEN s.val ELSE fFirstBucket
    /\ fLastBucket' = IF s.var = "fLastBucket" THEN s.val ELSE fLastBucket
    /\ fNextBucketIndex' =
         IF s.var = "fNextBucketIndex" THEN s.val ELSE fNextBucketIndex
    /\ fLock' = IF s.var = "fLock" THEN s.val ELSE fLock
    /\ heap' = IF s.var = "next"
               THEN [heap EXCEPT ![s.obj].next = s.val] ELSE heap
    /\ UNCHANGED <<BUCKET_SIZE, allocated, threadVars, resets, histVars>>

\* fLastBucket->next = newBucket;
LinkNextW(t) ==
  /\ pc[t] = "linkNext"
  /\ storeBuf' = [storeBuf EXCEPT ![t] =
       @ \cup {Store("next", Loaded(t, "fLastBucket", fLastBucket),
                     newBucket[t])}]
  /\ pc' = [pc EXCEPT ![t] = "publish"]
  /\ UNCHANGED <<BUCKET_SIZE, fFirstBucket, fLastBucket, fNextBucketIndex,
                 fLock, heap, allocated, index, bucket, newBucket, copyFrom,
                 calls, resets, histVars>>

\* fLastBucket = newBucket;
PublishLastW(t) ==
  /\ pc[t] = "publish"
  /\ storeBuf' = [storeBuf EXCEPT ![t] =
       @ \cup {Store("fLastBucket", NullBucket, newBucket[t])}]
  /\ pc' = [pc EXCEPT ![t] = "resetIndex"]
  /\ UNCHANGED <<BUCKET_SIZE, fFirstBucket, fLastBucket, fNextBucketIndex,
                 fLock, heap, allocated, index, bucket, newBucket, copyFrom,
                 calls, resets, histVars>>

\* fFirstBucket = new (*fAllocator) Bucket;
NewFirstW(t) ==
  /\ pc[t] = "newFirst"
  /\ allocated < MaxBuckets
  /\ allocated' = allocated + 1
  /\ heap' = [heap EXCEPT ![allocated + 1] = Bucket(BUCKET_SIZE)]
  /\ storeBuf' = [storeBuf EXCEPT ![t] =
       @ \cup {Store("fFirstBucket", NullBucket, allocated + 1)}]
  /\ pc' = [pc EXCEPT ![t] = "publishFirst"]
  /\ UNCHANGED <<BUCKET_SIZE, fFirstBucket, fLastBucket, fNextBucketIndex,
                 fLock, index, bucket, newBucket, copyFrom, calls, resets,
                 histVars>>

\* fLastBucket = fFirstBucket;
PublishFirstW(t) ==
  /\ pc[t] = "publishFirst"
  /\ storeBuf' = [storeBuf EXCEPT ![t] =
       @ \cup {Store("fLastBucket", NullBucket,
                     Loaded(t, "fFirstBucket", fFirstBucket))}]
  /\ pc' = [pc EXCEPT ![t] = "resetIndex"]
  /\ UNCHANGED <<BUCKET_SIZE, fFirstBucket, fLastBucket, fNextBucketIndex,
                 fLock, heap, allocated, index, bucket, newBucket, copyFrom,
                 calls, resets, histVars>>

\* fNextBucketIndex = 0;
ResetIndexW(t) ==
  /\ pc[t] = "resetIndex"
  /\ storeBuf' = [storeBuf EXCEPT ![t] =
       @ \cup {Store("fNextBucketIndex", NullBucket, 0)}]
  /\ pc' = [pc EXCEPT ![t] = "unlock"]
  /\ UNCHANGED <<BUCKET_SIZE, fFirstBucket, fLastBucket, fNextBucketIndex,
                 fLock, heap, allocated, index, bucket, newBucket, copyFrom,
                 calls, resets, histVars>>

\* fLock = 0;
UnlockW(t) ==
  /\ pc[t] = "unlock"
  /\ storeBuf' = [storeBuf EXCEPT ![t] =
       @ \cup {Store("fLock", NullBucket, 0)}]
  /\ pc' = [pc EXCEPT ![t] = "barrier"]
  /\ UNCHANGED <<BUCKET_SIZE, fFirstBucket, fLastBucket, fNextBucketIndex,
                 fLock, heap, allocated, index, bucket, newBucket, copyFrom,
                 calls, resets, histVars>>

\* __sync_synchronize();  and allocateBucket returns to the loop
Barrier(t) ==
  /\ pc[t] = "barrier"
  /\ storeBuf[t] = {}
  /\ pc' = [pc EXCEPT ![t] = "readIndex"]
  /\ UNCHANGED <<progVars, index, bucket, newBucket, copyFrom, calls, resets,
                 histVars>>

\* one step of thread t inside append, stores buffered
StepW(t) ==
  \/ ReadIndex(t) \/ ReadBucket(t) \/ CompareAndSwap(t) \/ WriteItem(t)
  \/ LockSpin(t) \/ LockAcquire(t) \/ CheckFull(t)
  \/ NewBucket(t) \/ LinkNextW(t) \/ PublishLastW(t)
  \/ NewFirstW(t) \/ PublishFirstW(t) \/ ResetIndexW(t) \/ UnlockW(t)
  \/ Barrier(t)

WeakNext ==
  \/ \E t \in Threads : Produce(t)
  \/ \E t \in Threads : StepW(t)
  \/ \E t \in Threads : Drain(t)

WeakSpec == Init /\ [][WeakNext]_vars

\* ------------------------------------------------------------- vocabulary
Range(s) == {s[i] : i \in 1..Len(s)}

\* the thread whose call appended the value v (concurrent specification)
Owner(v) == ((v.tag - 1) \div MaxAppends) + 1

\* the subsequence of s appended by thread t
OwnedBy(s, t) == LET Mine(v) == v # Unwritten /\ Owner(v) = t
                 IN SelectSeq(s, Mine)

\* the buckets reached from b along next links, b included
RECURSIVE ChainFrom(_, _)
ChainFrom(b, fuel) ==
  IF b = NullBucket \/ fuel = 0 THEN {}
  ELSE {b} \cup ChainFrom(heap[b].next, fuel - 1)

Reverse(s) == [i \in 1..Len(s) |-> s[Len(s) + 1 - i]]

IsAscending(s) == \A i \in 1..(Len(s) - 1) : ~Greater(s[i], s[i + 1])

PositionIn(s, v) == CHOOSE i \in 1..Len(s) : s[i] = v

\* the buckets passed from b along next links, in order
RECURSIVE ChainSeq(_, _)
ChainSeq(b, fuel) ==
  IF b = NullBucket \/ fuel = 0 THEN <<>>
  ELSE <<b>> \o ChainSeq(heap[b].next, fuel - 1)

\* the buckets allocated since the last reset() (or since construction)
EpochBuckets == (epochBase + 1)..allocated

\* the bucket reached from b by following next until next is nullptr
RECURSIVE TailOf(_, _)
TailOf(b, fuel) ==
  IF b = NullBucket \/ fuel = 0 THEN b
  ELSE IF heap[b].next = NullBucket THEN b
  ELSE TailOf(heap[b].next, fuel - 1)

\* t is between the acquisition and the release of fLock in allocateBucket
InGrowth(t) ==
  pc[t] \in {"check", "newBucket", "linkNext", "publish", "newFirst",
             "publishFirst", "resetIndex", "unlock"}

\* the cells of bucket b that some append call of the epoch has reserved
ReservedCells(b) == {r[3] : r \in {x \in reserved : x[2] = b}}

\* --------------------------------------------------------------- claims

\* C1: within one epoch no two append calls obtain the same (bucket, index)
\* pair: each cell is reserved, and so written, by at most one call.
C1_NoSharedSlot ==
  \A r1, r2 \in reserved :
    (r1[2] = r2[2] /\ r1[3] = r2[3]) => r1[1] = r2[1]

\* C2: when every thread has called append once on the initially empty
\* container and all calls have returned, the traversal from begin() to
\* end() has exactly NumThreads elements and is a permutation of the values.
C2_OnceEachPermutation ==
  (Quiescent /\ resets = 0 /\ \A t \in Threads : calls[t] = 1)
    => /\ Len(Traverse) = NumThreads
       /\ Range(Traverse) = {UniqueValue(t, 1) : t \in Threads}

\* C3: per-thread FIFO: once all appends have returned, the values of each
\* thread occur in the traversal in the order of that thread's calls.
C3_PerThreadFifo ==
  Quiescent => \A t \in Threads : OwnedBy(Traverse, t) = OwnedBy(appended, t)

\* C4: single-threaded round trip: with N values appended by one thread (and
\* no sort since), incrementing from begin() reaches end() after exactly N
\* increments and dereferences the appended values in append order.
C4_RoundTrip ==
  (Quiescent /\ ~sorted) => Traverse = appended

\* 2 * BUCKET_SIZE + 1 values appended over three buckets and read back
C4_Witness ==
  /\ Quiescent /\ ~sorted
  /\ BUCKET_SIZE = 2
  /\ Len(appended) = 2 * BUCKET_SIZE + 1
  /\ heap[fFirstBucket].next # NullBucket
  /\ heap[heap[fFirstBucket].next].next = fLastBucket
  /\ Traverse = appended

\* C5: sort() leaves the traversal ascending and a permutation of the
\* traversal before the call, over any number of buckets; on an empty
\* container it assigns nothing.
C5_SortAscendingPermutation ==
  (Quiescent /\ lastOp = "sort") =>
    /\ IsAscending(Traverse)
    /\ Len(Traverse) = Len(preSort)
    /\ Range(Traverse) = Range(preSort)
    /\ (preSort = <<>> => sortAssigns = 0)

\* a sort that moved elements of a sequence spanning three buckets
C5_Witness ==
  /\ Quiescent /\ lastOp = "sort"
  /\ sortAssigns > 0
  /\ BUCKET_SIZE = 2
  /\ Len(Traverse) = 5
  /\ ~IsAscending(preSort)

\* C6: sort() is stable: elements with equal keys keep the relative order
\* they had before the call, and an ascending sequence is sorted without any
\* element assignment.
C6_SortStable ==
  (Quiescent /\ lastOp = "sort") =>
    /\ \A i, j \in 1..Len(Traverse) :
         (i < j /\ Traverse[i].key = Traverse[j].key)
           => PositionIn(preSort, Traverse[i]) < PositionIn(preSort, Traverse[j])
    /\ (IsAscending(preSort) => sortAssigns = 0)

\* a sort that moved a smaller element in front of two elements of equal key
C6_Witness ==
  /\ Quiescent /\ lastOp = "sort"
  /\ sortAssigns > 0
  /\ \E i, j, k \in 1..Len(preSort) :
       /\ i < j /\ j < k
       /\ preSort[i].key = preSort[j].key
       /\ Greater(preSort[j], preSort[k])

\* C7: after reset() the three members are cleared and begin() == end();
\* a single append(v) made after a reset then leaves the traversal <<v>>.
C7_ResetIsFresh ==
  /\ (lastOp = "reset" /\ started = 0) =>
       /\ fFirstBucket = NullBucket
       /\ fLastBucket = NullBucket
       /\ fNextBucketIndex = 0
       /\ begin = end
  /\ (resets > 0 /\ Quiescent /\ started = 1) =>
       /\ Len(appended) = 1
       /\ Traverse = appended

\* one value appended and read back after the reset of a container that
\* held several buckets
C7_Witness ==
  /\ resets > 0 /\ Quiescent /\ started = 1
  /\ allocated > 2
  /\ Traverse = appended

\* C8: under weakly fair scheduling of every thread, every append call
\* eventually returns.
C8_AppendReturns ==
  \A t \in Threads : (pc[t] # "idle") ~> (pc[t] = "idle")

\* every call of every thread has returned, after at least two growths
C8_Witness ==
  /\ Quiescent
  /\ \A t \in Threads : calls[t] = MaxAppends
  /\ allocated >= 2

\* C9: whenever the compare-and-swap of fNextBucketIndex succeeds, the
\* bucket snapshotted before it is the current fLastBucket.
C9_CasOnCurrentBucket ==
  [][\A t \in Threads :
       (pc[t] = "cas" /\ pc'[t] = "write") => bucket[t] = fLastBucket]_vars

\* C10 as stated: an appender holding a snapshot (index, bucket) with
\* index < BUCKET_SIZE and bucket present read that bucket's own slot count:
\* bucket was fLastBucket at the moment index was read.
C10_SnapshotSameBucket ==
  \A t \in Threads : pc[t] = "cas" => bucket[t] = lastAtIndexRead[t]

\* C10 amended: the bucket of the snapshot is never older than the index:
\* it is the fLastBucket of the moment index was read or a bucket linked
\* after that one.
C10_SnapshotNotStale ==
  \A t \in Threads :
    pc[t] = "cas" =>
      \/ lastAtIndexRead[t] = NullBucket
      \/ bucket[t] \in ChainFrom(lastAtIndexRead[t], MaxBuckets)

\* an appender whose index was read before a growth and whose bucket was
\* read after it
C10_Witness ==
  \E t \in Threads :
    /\ pc[t] = "cas"
    /\ lastAtIndexRead[t] # NullBucket
    /\ bucket[t] # lastAtIndexRead[t]
    /\ bucket[t] \in ChainFrom(lastAtIndexRead[t], MaxBuckets)

\* C11, allocation part: a bucket is allocated and linked only while
\* fLastBucket is absent or fNextBucketIndex = BUCKET_SIZE.
C11_GrowthOnlyWhenFull ==
  \A t \in Threads :
    /\ pc[t] \in {"newBucket", "linkNext", "publish"} =>
         (fLastBucket # NullBucket /\ fNextBucketIndex = BUCKET_SIZE)
    /\ pc[t] \in {"newFirst", "publishFirst"} => fLastBucket = NullBucket

\* C11: growth never double-allocates: buckets are allocated and linked only
\* while fLastBucket is absent or fNextBucketIndex = BUCKET_SIZE, and hence
\* every bucket other than the tail has had all BUCKET_SIZE cells reserved.
C11_NoDoubleAllocation ==
  /\ C11_GrowthOnlyWhenFull
  /\ \A b \in ChainFrom(fFirstBucket, MaxBuckets) :
       heap[b].next # NullBucket => ReservedCells(b) = 0..(BUCKET_SIZE - 1)

\* C12: mutual exclusion of growth: in every reachable state at most one
\* thread is between the successful compare-and-swap on fLock and the store
\* that frees it, and fLock is taken while a thread is there.
C12_GrowthMutex ==
  /\ Cardinality({t \in Threads : InGrowth(t)}) <= 1
  /\ (\E t \in Threads : InGrowth(t)) => fLock = 1

\* one thread is linking a bucket while another has passed the spin loop and
\* is about to try the compare-and-swap on fLock
C12_Witness ==
  \E t, u \in Threads :
    /\ t # u
    /\ pc[t] \in {"newBucket", "linkNext", "publish"}
    /\ pc[u] = "lockCas"

\* C13: the store of 0 to fNextBucketIndex at the end of a growth never
\* discards a reservation: when a thread executes fNextBucketIndex = 0, no
\* append call has reserved a cell of the bucket that this growth published
\* as fLastBucket.
C13_ResetDiscardsNothing ==
  [][\A t \in Threads :
       (pc[t] = "resetIndex" /\ pc'[t] = "unlock")
         => ReservedCells(fLastBucket) = {}]_vars

\* C13, later buckets: the store of 0 that follows the linking of a bucket
\* after an existing one discards no reservation of the new bucket.
C13_LaterBuckets ==
  [][\A t \in Threads :
       (pc[t] = "resetIndex" /\ pc'[t] = "unlock"
          /\ fLastBucket # fFirstBucket)
         => ReservedCells(fLastBucket) = {}]_vars

\* C14: in every reachable state 0 <= fNextBucketIndex <= BUCKET_SIZE; a
\* thread about to try the compare-and-swap holds an index below BUCKET_SIZE,
\* so no compare-and-swap takes the counter above BUCKET_SIZE, and a thread
\* about to write holds a cell index in 0 .. BUCKET_SIZE - 1.
C14_IndexInRange ==
  /\ fNextBucketIndex \in 0..BUCKET_SIZE
  /\ \A t \in Threads :
       pc[t] \in {"cas", "write"} => index[t] \in 0..(BUCKET_SIZE - 1)

\* the counter stands at BUCKET_SIZE while a thread, whose snapshot is
\* older, is about to try the compare-and-swap
C14_Witness ==
  /\ fNextBucketIndex = BUCKET_SIZE
  /\ \E t \in Threads : pc[t] = "cas"

\* C15 as stated: in every reachable state fLastBucket is the tail of the
\* chain that starts at fFirstBucket, and is nullptr exactly when
\* fFirstBucket is.
C15_LastIsTailAlways ==
  /\ fLastBucket = TailOf(fFirstBucket, MaxBuckets)
  /\ (fLastBucket = NullBucket) <=> (fFirstBucket = NullBucket)

\* C15: whenever fLock is free, fLastBucket is the tail of the chain that
\* starts at fFirstBucket, and is nullptr exactly when fFirstBucket is.
C15_LastIsTailWhenUnlocked ==
  fLock = 0 =>
    /\ fLastBucket = TailOf(fFirstBucket, MaxBuckets)
    /\ (fLastBucket = NullBucket) <=> (fFirstBucket = NullBucket)

\* fLock is free after a growth has linked a second bucket
C15_Witness ==
  /\ fLock = 0
  /\ fFirstBucket # NullBucket
  /\ heap[fFirstBucket].next # NullBucket

\* C16: fFirstBucket is assigned at most once per epoch: once it is set, no
\* step of append or allocateBucket changes it; only reset() does.
C16_FirstAssignedOnce ==
  [][fFirstBucket # NullBucket =>
       (fFirstBucket' = fFirstBucket \/ resets' # resets)]_vars

\* a thread that saw fLastBucket = nullptr holds fLock after another thread
\* has made the first growth of the epoch
C16_Witness ==
  \E t \in Threads :
    /\ pc[t] = "check"
    /\ bucket[t] = NullBucket
    /\ fFirstBucket # NullBucket

\* C17: backward traversal: in a quiescent container holding N >= 1
\* elements, stepping back from end() reaches begin() after exactly N
\* decrements and passes the elements in the reverse of the forward order
\* (the reverse of the append order when sort() has not run); and for every
\* position p in [begin, end) the decrement of the increment of p is p.
C17_BackwardTraversal ==
  (Quiescent /\ Len(appended) >= 1) =>
    /\ Len(TraverseBack) = Len(appended)
    /\ TraverseBack = Reverse(Traverse)
    /\ ~sorted => TraverseBack = Reverse(appended)
    /\ LET ps == Positions(heap, begin, end, <<>>, WalkFuel)
       IN /\ Len(ps) = Len(appended)
          /\ \A k \in 1..Len(ps) :
               Decrement(heap, Increment(heap, ps[k])) = ps[k]

\* four elements in buckets of two: the last bucket is full, end() is one
\* past its last cell
C17_Witness ==
  /\ Quiescent
  /\ BUCKET_SIZE = 2
  /\ Len(appended) = 4
  /\ fNextBucketIndex = BUCKET_SIZE
  /\ fLastBucket # fFirstBucket
  /\ TraverseBack = Reverse(appended)

\* C18: whenever no append call is in progress and fFirstBucket is present,
\* fNextBucketIndex >= 1: the last bucket is never left without a reserved
\* cell, and at least one append call of the epoch has returned.
C18_TailNotEmpty ==
  (Quiescent /\ fFirstBucket # NullBucket) =>
    /\ fNextBucketIndex >= 1
    /\ fLastBucket # NullBucket
    /\ Len(appended) >= 1

\* two calls have returned after racing on the first growth, and the
\* counter stands at 1: the store of 0 came between their reservations
C18_Witness ==
  /\ Quiescent
  /\ fFirstBucket # NullBucket
  /\ Len(appended) = 2
  /\ BUCKET_SIZE = 2
  /\ fNextBucketIndex = 1

\* C19: whenever fLock is free the buckets form a well-formed doubly linked
\* list: following next from fFirstBucket passes no bucket twice and ends
\* at nullptr, fFirstBucket has no prev, fLastBucket has no next, n->prev = b
\* for every bucket b with b->next = n, and the buckets reached from
\* fFirstBucket are exactly those allocated in the epoch.
C19_WellFormedList ==
  fLock = 0 =>
    LET chain == ChainSeq(fFirstBucket, MaxBuckets)
    IN /\ Cardinality(Range(chain)) = Len(chain)
       /\ Len(chain) > 0 => heap[chain[Len(chain)]].next = NullBucket
       /\ fFirstBucket # NullBucket => heap[fFirstBucket].prev = NullBucket
       /\ fLastBucket # NullBucket => heap[fLastBucket].next = NullBucket
       /\ \A k \in 1..(Len(chain) - 1) : heap[chain[k + 1]].prev = chain[k]
       /\ Range(chain) = EpochBuckets

\* fLock is free and the epoch that followed a reset() has three buckets,
\* while buckets of the epoch before it remain in memory
C19_Witness ==
  /\ fLock = 0
  /\ epochBase >= 1
  /\ allocated - epochBase >= 3
  /\ Len(ChainSeq(fFirstBucket, MaxBuckets)) = 3

\* C20, first part: once the store that frees fLock is visible to the other
\* threads, every store of that growth is: a thread that has executed
\* fLock = 0 and whose store to fLock has left its buffer has no store left
\* in its buffer.
C20_GrowthVisibleWhenUnlocked ==
  \A t \in Threads :
    (pc[t] = "barrier" /\ ~\E s \in storeBuf[t] : s.var = "fLock")
      => storeBuf[t] = {}

\* C20, second part: no thread holds fLock and allocates a bucket while a
\* store of an earlier growth to fLastBucket or fNextBucketIndex is not yet
\* visible to it.
C20_NoGrowthOnStaleValues ==
  \A t, u \in Threads :
    (t # u /\ pc[t] \in {"newBucket", "linkNext", "publish", "newFirst",
                         "publishFirst"})
      => ~\E s \in storeBuf[u] : s.var \in {"fLastBucket", "fNextBucketIndex"}

\* C20: visibility at lock release: any thread that observes fLock free
\* after a growth also observes that growth's writes to fLastBucket, to the
\* bucket links and to fNextBucketIndex, so that no thread takes fLock and
\* allocates a second bucket on values from before the previous growth.
C20_VisibilityAtRelease ==
  /\ C20_GrowthVisibleWhenUnlocked
  /\ C20_NoGrowthOnStaleValues

====
